---- MODULE Spec2Model ----
(***************************************************************************)
(* State-machine model of the SonicWorld component                         *)
(* (src/components/SonicWorld.tsx): listener and emitter motion with       *)
(* collision handling, world editing commands, and the reconciliation of   *)
(* the Web Audio units with the live emitters.                             *)
(*                                                                         *)
(* Fixed-point units (the source computes in IEEE doubles):                *)
(*   length      centimetres        (1 m     = 100)                        *)
(*   time        milliseconds       (1 s     = 1000)                       *)
(*   velocity    centimetres/second (1 m/s   = 100)                        *)
(*   heading     tenths of a degree (1 deg   = 10)                         *)
(*   sin, cos    thousandths        (1.0     = 1000)                       *)
(*   gain        ten-thousandths    (1.0     = 10000)                      *)
(*   frequency   tenths of a hertz  (1 Hz    = 10)                         *)
(* Entity ids "emitter-N", "zone-N", "wall-N" are modelled by N.           *)
(* Every action is one event handler together with the React effects the   *)
(* resulting state change triggers.                                        *)
(***************************************************************************)
EXTENDS Integers, Sequences, FiniteSets, TLC

VARIABLES
    listener,           \* useState<ListenerPose>
    emitters,           \* useState<SoundEmitter[]>
    collisionZones,     \* useState<CollisionZone[]>
    walls,              \* useState<Wall[]>
    walkMode,           \* useState(true)
    movingEnabled,      \* useState(true)
    audioRunning,       \* useState(false)
    status,             \* useState(status string)
    selectedEmitterId,  \* useState<string | null>, 0 models null
    selectedObstacle,   \* useState<SelectedObstacle | null>
    dragTarget,         \* dragTargetRef
    emitterCounter,     \* emitterCounterRef
    zoneCounter,        \* zoneCounterRef
    wallCounter,        \* wallCounterRef
    audioContext,       \* audioContextRef (with masterGainRef)
    audioCtor,          \* window.AudioContext availability, probed on first use
    nodeMap,            \* emitterNodesRef: emitter id -> audio unit
    pendingResume,      \* startAudio calls awaiting context.resume()
    pendingSuspend,     \* stopAudio calls awaiting context.suspend()
    mounted,            \* the component is mounted (tick loop scheduled)
    nextSerial,         \* identity of the next audio unit to be created
    disposeCount,       \* per unit: number of disposeEmitterNode calls
    closeCount,         \* number of AudioContext.close() calls
    steps,              \* animation frames and world commands handled so far
    audioOps,           \* Start/Pause Audio clicks handled so far
    last                \* what the last handler that changed the world or the audio
                        \* state did (observation only)

vars == << listener, emitters, collisionZones, walls, walkMode, movingEnabled,
           audioRunning, status, selectedEmitterId, selectedObstacle, dragTarget,
           emitterCounter, zoneCounter, wallCounter, audioContext, audioCtor,
           nodeMap, pendingResume, pendingSuspend, mounted, nextSerial,
           disposeCount, closeCount, steps, audioOps, last >>

worldVars == << listener, emitters, collisionZones, walls, walkMode, movingEnabled,
                selectedEmitterId, selectedObstacle, dragTarget,
                emitterCounter, zoneCounter, wallCounter >>

----------------------------------------------------------------------------
(* Bounds of the model *)

MaxSteps == 2
MaxAudioOps == 3

----------------------------------------------------------------------------
(* Program constants *)

WORLD_RADIUS_M == 1600
PLAYER_RADIUS_M == 45
EMITTER_RADIUS_M == 35
CANVAS_SIZE == 840
MOVE_SPEED_MPS == 275
TURN_SPEED_DEG_PER_SEC == 950
SOUND_SPEED_MPS == 34300
MaxDeltaMs == 40

WAVEFORMS == << "sine", "triangle", "square", "sawtooth" >>

INITIAL_LISTENER == [x |-> 0, z |-> 0, headingDeg |-> 0]

INITIAL_ZONES ==
    << [id |-> 1, x |-> -480, z |-> -150, radius |-> 160],
       [id |-> 2, x |-> 500, z |-> 450, radius |-> 190],
       [id |-> 3, x |-> 340, z |-> -680, radius |-> 135] >>

INITIAL_WALLS ==
    << [id |-> 1, x |-> -720, z |-> 240, width |-> 460, height |-> 80],
       [id |-> 2, x |-> 180, z |-> -280, width |-> 80, height |-> 560],
       [id |-> 3, x |-> 670, z |-> -50, width |-> 80, height |-> 420] >>

INITIAL_EMITTERS ==
    << [id |-> 1, x |-> -600, z |-> 500, y |-> 0, frequency |-> 4700, gain |-> 1600,
        waveform |-> "triangle", moving |-> TRUE, vx |-> 90, vz |-> -55],
       [id |-> 2, x |-> 480, z |-> -520, y |-> 30, frequency |-> 6900, gain |-> 1400,
        waveform |-> "sine", moving |-> FALSE, vx |-> 0, vz |-> 0],
       [id |-> 3, x |-> 720, z |-> 340, y |-> -25, frequency |-> 9200, gain |-> 1200,
        waveform |-> "square", moving |-> TRUE, vx |-> -75, vz |-> 45] >>

----------------------------------------------------------------------------
(* Arithmetic helpers *)

Abs(a) == IF a < 0 THEN -a ELSE a

Min2(a, b) == IF a < b THEN a ELSE b

Max2(a, b) == IF a > b THEN a ELSE b

\* Fixed-point division, rounding to nearest (b > 0).
RoundDiv(a, b) ==
    IF a >= 0 THEN (2 * a + b) \div (2 * b) ELSE -((2 * (-a) + b) \div (2 * b))

\* JavaScript's % (the sign of the result follows the dividend), m > 0.
JsRem(a, m) == IF a >= 0 THEN a % m ELSE -((-a) % m)

RECURSIVE IsqrtIter(_, _, _)
IsqrtIter(n, lo, hi) ==
    LET mid == (lo + hi + 1) \div 2
    IN  IF lo >= hi THEN lo
        ELSE IF mid * mid <= n THEN IsqrtIter(n, mid, hi) ELSE IsqrtIter(n, lo, mid - 1)

\* Largest r with r * r <= n (Math.hypot on the fixed-point grid).
Isqrt(n) == IF n <= 0 THEN 0 ELSE IsqrtIter(n, 0, 46340)

clamp(value, min, max) == Min2(max, Max2(min, value))

wrapDegrees(value) ==
    LET normalized == JsRem(value, 3600)
    IN  IF normalized < 0 THEN normalized + 3600 ELSE normalized

\* Math.sin of a heading in [0, 3600) tenths of a degree, in thousandths
\* (Bhaskara's rational approximation; exact at 0, 30, 90, 150, 180 degrees).
SinDeci(d) ==
    LET h == IF d >= 1800 THEN d - 1800 ELSE d
        p == h * (1800 - h)
        s == (40 * p) \div ((4050000 - p) \div 100)
    IN  IF d >= 1800 THEN -s ELSE s

CosDeci(d) == SinDeci((d + 900) % 3600)

----------------------------------------------------------------------------
(* Geometry *)

canvasToPoint(x, y, canvasSize) ==
    LET radiusPx10 == (canvasSize * 43) \div 10       \* canvasSize * 0.43, in tenths of a pixel
        center == canvasSize \div 2
    IN  [x |-> clamp(RoundDiv((x - center) * 10 * WORLD_RADIUS_M, radiusPx10),
                     -WORLD_RADIUS_M, WORLD_RADIUS_M),
         z |-> clamp(RoundDiv((y - center) * 10 * WORLD_RADIUS_M, radiusPx10),
                     -WORLD_RADIUS_M, WORLD_RADIUS_M)]

\* Canvas coordinates in tenths of a pixel.
pointToCanvas(x, z, canvasSize) ==
    LET radiusPx10 == (canvasSize * 43) \div 10
        center10 == canvasSize * 5
    IN  [x |-> center10 + RoundDiv(x * radiusPx10, WORLD_RADIUS_M),
         y |-> center10 + RoundDiv(z * radiusPx10, WORLD_RADIUS_M)]

\* Math.hypot(dx, dz) <= r, decided exactly on squares.
HypotLeq(dx, dz, r) == r >= 0 /\ dx * dx + dz * dz <= r * r

OutsideWorld(x, z, radius) == ~HypotLeq(x, z, WORLD_RADIUS_M - radius)

InZone(x, z, radius, zone) == HypotLeq(x - zone.x, z - zone.z, zone.radius + radius)

\* The wall rectangle grown by radius; coordinates doubled so that width / 2 is exact.
InWall(x, z, radius, wall) ==
    /\ 2 * x >= 2 * wall.x - wall.width - 2 * radius
    /\ 2 * x <= 2 * wall.x + wall.width + 2 * radius
    /\ 2 * z >= 2 * wall.z - wall.height - 2 * radius
    /\ 2 * z <= 2 * wall.z + wall.height + 2 * radius

\* A plausible slip: touching a zone does not count as a collision.
collidesAtStrictZones(x, z, radius, zones, ws) ==
    \/ OutsideWorld(x, z, radius)
    \/ \E i \in 1..Len(zones) :
           (x - zones[i].x) * (x - zones[i].x) + (z - zones[i].z) * (z - zones[i].z)
               < (zones[i].radius + radius) * (zones[i].radius + radius)
    \/ \E i \in 1..Len(ws) : InWall(x, z, radius, ws[i])

collidesAt(x, z, radius, zones, ws) ==
    \/ OutsideWorld(x, z, radius)
    \/ \E i \in 1..Len(zones) : InZone(x, z, radius, zones[i])
    \/ \E i \in 1..Len(ws) : InWall(x, z, radius, ws[i])

circleLineIntersection(ax, az, bx, bz, cx, cz, radius) ==
    LET abx == bx - ax
        abz == bz - az
        acx == cx - ax
        acz == cz - az
        abLenSq == abx * abx + abz * abz
        dot == acx * abx + acz * abz
        \* clamp(dot / abLenSq, 0, 1), in hundredths
        projection == IF dot <= 0 THEN 0
                      ELSE IF dot >= abLenSq THEN 100
                      ELSE (100 * dot) \div abLenSq
        closestX == ax + RoundDiv(abx * projection, 100)
        closestZ == az + RoundDiv(abz * projection, 100)
    IN  IF abLenSq = 0
        THEN HypotLeq(cx - ax, cz - az, radius)
        ELSE HypotLeq(cx - closestX, cz - closestZ, radius)

WallSteps == 18

lineIntersectsWall(ax, az, bx, bz, wall) ==
    \E i \in 0..WallSteps :
        LET x == ax + RoundDiv((bx - ax) * i, WallSteps)
            z == az + RoundDiv((bz - az) * i, WallSteps)
        IN  InWall(x, z, 0, wall)

----------------------------------------------------------------------------
(* Motion: the two state updaters of tick *)

\* A plausible slip: the elapsed time is used as it comes.
DeltaOfUnclamped(elapsedMs) == elapsedMs

DeltaOf(elapsedMs) == Min2(elapsedMs, MaxDeltaMs)

\* The heading and the desired position of the setListener updater (lines 794-803).
DesiredPose(current, forward, strafe, turn, delta) ==
    LET heading == wrapDegrees(current.headingDeg
                               + RoundDiv(turn * TURN_SPEED_DEG_PER_SEC * delta, 1000))
        fx == SinDeci(heading)
        fz == -CosDeci(heading)
        rx == CosDeci(heading)
        rz == SinDeci(heading)
    IN  [x |-> current.x
               + RoundDiv((forward * fx + strafe * rx) * MOVE_SPEED_MPS * delta, 1000000),
         z |-> current.z
               + RoundDiv((forward * fz + strafe * rz) * MOVE_SPEED_MPS * delta, 1000000),
         headingDeg |-> heading]

\* A plausible slip: the Z-slide is taken without testing it.
TickListenerUncheckedSlide(current, forward, strafe, turn, delta, zones, ws) ==
    LET d == DesiredPose(current, forward, strafe, turn, delta)
    IN  IF collidesAt(d.x, d.z, PLAYER_RADIUS_M, zones, ws)
        THEN IF ~collidesAt(d.x, current.z, PLAYER_RADIUS_M, zones, ws)
             THEN [d EXCEPT !.z = current.z]
             ELSE [d EXCEPT !.x = current.x]
        ELSE d

\* The setListener updater of tick (lines 793-820).
TickListener(current, forward, strafe, turn, delta, zones, ws) ==
    LET d == DesiredPose(current, forward, strafe, turn, delta)
    IN  IF collidesAt(d.x, d.z, PLAYER_RADIUS_M, zones, ws)
        THEN IF ~collidesAt(d.x, current.z, PLAYER_RADIUS_M, zones, ws)
             THEN [d EXCEPT !.z = current.z]
             ELSE IF ~collidesAt(current.x, d.z, PLAYER_RADIUS_M, zones, ws)
                  THEN [d EXCEPT !.x = current.x]
                  ELSE [d EXCEPT !.x = current.x, !.z = current.z]
        ELSE d

\* Displacement of a velocity component over delta.
Travel(v, delta) == RoundDiv(v * delta, 1000)

\* A plausible slip: any collision reverses both components.
TickEmitterFullBounce(emitter, delta, zones, ws) ==
    LET hit == collidesAt(emitter.x + Travel(emitter.vx, delta),
                          emitter.z + Travel(emitter.vz, delta), EMITTER_RADIUS_M, zones, ws)
        vx == IF hit THEN -emitter.vx ELSE emitter.vx
        vz == IF hit THEN -emitter.vz ELSE emitter.vz
    IN  IF ~emitter.moving THEN emitter
        ELSE [emitter EXCEPT !.x = emitter.x + Travel(vx, delta),
                             !.z = emitter.z + Travel(vz, delta),
                             !.vx = vx, !.vz = vz]

\* A plausible slip: a bounce loses speed.
TickEmitterDamped(emitter, delta, zones, ws) ==
    LET hit == collidesAt(emitter.x + Travel(emitter.vx, delta),
                          emitter.z + Travel(emitter.vz, delta), EMITTER_RADIUS_M, zones, ws)
        vx == IF hit THEN -(emitter.vx \div 2) ELSE emitter.vx
        vz == IF hit THEN -(emitter.vz \div 2) ELSE emitter.vz
    IN  IF ~emitter.moving THEN emitter
        ELSE [emitter EXCEPT !.x = emitter.x + Travel(vx, delta),
                             !.z = emitter.z + Travel(vz, delta),
                             !.vx = vx, !.vz = vz]

\* A plausible slip: the moving flag is not read.
TickEmitterIgnoresFlag(emitter, delta, zones, ws) ==
    [emitter EXCEPT !.x = emitter.x + Travel(emitter.vx, delta),
                    !.z = emitter.z + Travel(emitter.vz, delta)]

\* The per-emitter body of the setEmitters updater of tick (lines 826-858).
TickEmitter(emitter, delta, zones, ws) ==
    LET nx0 == emitter.x + Travel(emitter.vx, delta)
        nz0 == emitter.z + Travel(emitter.vz, delta)
        hit == collidesAt(nx0, nz0, EMITTER_RADIUS_M, zones, ws)
        collidesX == collidesAt(nx0, emitter.z, EMITTER_RADIUS_M, zones, ws)
        collidesZ == collidesAt(emitter.x, nz0, EMITTER_RADIUS_M, zones, ws)
        vx1 == IF hit /\ collidesX THEN -emitter.vx ELSE emitter.vx
        vz1 == IF hit /\ collidesZ THEN -emitter.vz ELSE emitter.vz
        nx1 == emitter.x + Travel(vx1, delta)
        nz1 == emitter.z + Travel(vz1, delta)
        again == hit /\ collidesAt(nx1, nz1, EMITTER_RADIUS_M, zones, ws)
        vx2 == IF again THEN -vx1 ELSE vx1
        vz2 == IF again THEN -vz1 ELSE vz1
    IN  IF ~emitter.moving THEN emitter
        ELSE [emitter EXCEPT !.x = emitter.x + Travel(vx2, delta),
                             !.z = emitter.z + Travel(vz2, delta),
                             !.vx = vx2, !.vz = vz2]

TickEmitters(current, delta, zones, ws) ==
    [i \in 1..Len(current) |-> TickEmitter(current[i], delta, zones, ws)]

----------------------------------------------------------------------------
(* Acoustic targets computed by reconnectAudioEmitters for an existing unit *)

\* Lines 462-470. The distance is taken in millimetres (0.001 m = 1).
\* The closing speed of lines 462-465, in cm/s.
towardListener(emitter, lis) ==
    LET dx == lis.x - emitter.x
        dz == lis.z - emitter.z
        distance == Max2(1, Isqrt(100 * (dx * dx + dz * dz)))
    IN  RoundDiv((emitter.vx * dx + emitter.vz * dz) * 10, distance)

\* The quotient of line 467 before the clamp; a division by zero gives +Infinity,
\* here a value above every bound.
DopplerRaw(emitter, lis) ==
    LET denom == SOUND_SPEED_MPS - towardListener(emitter, lis)
    IN  IF denom = 0 THEN 100 * Abs(emitter.frequency) + 1
        ELSE IF denom > 0
             THEN RoundDiv(emitter.frequency * SOUND_SPEED_MPS, denom)
             ELSE -RoundDiv(emitter.frequency * SOUND_SPEED_MPS, -denom)

\* A plausible slip: the quotient is used without the clamp.
observedFreqUnclamped(emitter, lis) == DopplerRaw(emitter, lis)

\* A plausible slip: the bounds of the clamp are passed in the wrong order.
observedFreqSwappedBounds(emitter, lis) ==
    clamp(DopplerRaw(emitter, lis), (emitter.frequency * 18) \div 10,
          (emitter.frequency * 6) \div 10)

\* The observed frequency of lines 462-470.
observedFreq(emitter, lis) ==
    LET denom == SOUND_SPEED_MPS - towardListener(emitter, lis)
        lo == (emitter.frequency * 6) \div 10
        hi == (emitter.frequency * 18) \div 10
    IN  IF denom = 0
        THEN \* x / 0 is +Infinity (frequency > 0): Math.min(hi, Math.max(lo, Infinity)) = hi
             hi
        ELSE IF denom > 0
             THEN clamp(RoundDiv(emitter.frequency * SOUND_SPEED_MPS, denom), lo, hi)
             ELSE clamp(-RoundDiv(emitter.frequency * SOUND_SPEED_MPS, -denom), lo, hi)

\* A plausible slip: the walls are not tested.
occludedByZonesOnly(emitter, lis, zones, ws) ==
    \E i \in 1..Len(zones) :
        circleLineIntersection(lis.x, lis.z, emitter.x, emitter.z,
                               zones[i].x, zones[i].z, zones[i].radius)

\* Lines 472-486: zones first, walls only when no zone hit.
occludedBy(emitter, lis, zones, ws) ==
    IF \E i \in 1..Len(zones) :
           circleLineIntersection(lis.x, lis.z, emitter.x, emitter.z,
                                  zones[i].x, zones[i].z, zones[i].radius)
    THEN TRUE
    ELSE \E i \in 1..Len(ws) : lineIntersectsWall(lis.x, lis.z, emitter.x, emitter.z, ws[i])

OcclusionGain == 72         \* emitter.gain * 0.72, in hundredths
MuffledCutoff == 15000
OpenCutoff == 76000
CreateCutoff == 62000
FreqTimeConstant == 40      \* setTargetAtTime(..., 0.04)
GainTimeConstant == 40
CutoffTimeConstant == 50    \* setTargetAtTime(..., 0.05)

gainTarget(emitter, occluded) ==
    IF occluded THEN RoundDiv(emitter.gain * OcclusionGain, 100) ELSE emitter.gain

cutoffTarget(occluded) == IF occluded THEN MuffledCutoff ELSE OpenCutoff

----------------------------------------------------------------------------
(* Audio units *)

\* One write to an AudioParam: its value or target, the call, the time constant.
ParamWrite(v, how, tc) == [value |-> v, how |-> how, timeConstant |-> tc]

\* setEmitterPannerPosition (lines 359-372).
setEmitterPannerPosition(context, emitter) ==
    [x |-> emitter.x, y |-> emitter.y, z |-> emitter.z,
     how |-> IF context.pannerParams THEN "setValueAtTime" ELSE "setPosition"]

\* createEmitterNode (lines 396-437).
createEmitterNode(context, emitter, serial) ==
    [serial |-> serial,
     type |-> emitter.waveform,
     typeHow |-> "assign",
     frequency |-> ParamWrite(emitter.frequency, "setValueAtTime", 0),
     gain |-> ParamWrite(emitter.gain, "setValueAtTime", 0),
     filter |-> ParamWrite(CreateCutoff, "setValueAtTime", 0),
     panner |-> setEmitterPannerPosition(context, emitter)]

\* A plausible slip: the frequency is stepped like the position.
updateEmitterNodeStepped(context, existing, emitter, lis, zones, ws) ==
    LET occluded == occludedBy(emitter, lis, zones, ws)
    IN  [serial |-> existing.serial,
         type |-> emitter.waveform,
         typeHow |-> "assign",
         frequency |-> ParamWrite(observedFreq(emitter, lis), "setValueAtTime", 0),
         gain |-> ParamWrite(gainTarget(emitter, occluded), "setTargetAtTime", GainTimeConstant),
         filter |-> ParamWrite(cutoffTarget(occluded), "setTargetAtTime", CutoffTimeConstant),
         panner |-> setEmitterPannerPosition(context, emitter)]

\* The update of an existing unit (lines 462-492).
updateEmitterNode(context, existing, emitter, lis, zones, ws) ==
    LET occluded == occludedBy(emitter, lis, zones, ws)
    IN  [serial |-> existing.serial,
         type |-> emitter.waveform,
         typeHow |-> "assign",
         frequency |-> ParamWrite(observedFreq(emitter, lis), "setTargetAtTime", FreqTimeConstant),
         gain |-> ParamWrite(gainTarget(emitter, occluded), "setTargetAtTime", GainTimeConstant),
         filter |-> ParamWrite(cutoffTarget(occluded), "setTargetAtTime", CutoffTimeConstant),
         panner |-> setEmitterPannerPosition(context, emitter)]

LiveIds(ems) == {ems[i].id : i \in 1..Len(ems)}

MapWithout(map, ids) == [k \in DOMAIN map \ ids |-> map[k]]

MapPut(map, id, unit) == [k \in DOMAIN map \cup {id} |-> IF k = id THEN unit ELSE map[k]]

\* A plausible slip: no unit is ever found stale.
StaleIdsNone(map, ems) == {}

\* The first loop of reconnectAudioEmitters (lines 448-453): the ids to dispose and delete.
StaleIds(map, ems) == {id \in DOMAIN map : id \notin LiveIds(ems)}

\* A plausible slip: a unit is created for every emitter on every run.
NeedsUnitAlways(nodes, emitter) == TRUE

\* The test of lines 456-457: the emitter has no unit in the map.
NeedsUnit(nodes, emitter) == emitter.id \notin DOMAIN nodes

\* The second loop (lines 455-493), from emitter i on; acc = [nodes, created, next].
RECURSIVE ReconcileFrom(_, _, _, _, _, _, _)
ReconcileFrom(i, acc, ems, lis, zones, ws, context) ==
    IF i > Len(ems) THEN acc
    ELSE LET emitter == ems[i]
             step == IF NeedsUnit(acc.nodes, emitter)
                     THEN [nodes |-> MapPut(acc.nodes, emitter.id,
                                            createEmitterNode(context, emitter, acc.next)),
                           created |-> acc.created \cup {acc.next},
                           next |-> acc.next + 1]
                     ELSE [acc EXCEPT !.nodes =
                               MapPut(acc.nodes, emitter.id,
                                      updateEmitterNode(context, acc.nodes[emitter.id],
                                                        emitter, lis, zones, ws))]
         IN  ReconcileFrom(i + 1, step, ems, lis, zones, ws, context)

\* reconnectAudioEmitters past its guard (lines 445-493).
reconnectAudioEmitters(map, ems, lis, zones, ws, context, serial) ==
    LET stale == StaleIds(map, ems)
        done == ReconcileFrom(1, [nodes |-> MapWithout(map, stale), created |-> {},
                                  next |-> serial],
                              ems, lis, zones, ws, context)
    IN  [nodes |-> done.nodes,
         created |-> done.created,
         disposed |-> {map[id].serial : id \in stale},
         next |-> done.next]

----------------------------------------------------------------------------
(* Inputs of the handlers *)

Axis == {-1, 0, 1}
AllIntents == Axis \X Axis \X Axis

\* Time since the previous animation frame, in ms (100 models a stalled frame).
ElapsedMs == {20, 100}

\* Pointer positions on the canvas, in pixels.
Pixels == { <<285, 533>>, <<312, 386>>, <<461, 357>>, <<840, 840>> }

\* Outcomes of the Math.random() calls of addZone, addWall and addEmitter.
ZoneSeeds == { [x |-> 120, z |-> -120, radius |-> 120],
               [x |-> 0, z |-> -150, radius |-> 100],
               [x |-> 50, z |-> 50, radius |-> 100] }

WallSeeds == { [x |-> -116, z |-> 0, width |-> 120, height |-> 100] }

EmitterSeeds ==
    { [y |-> 10, frequency |-> 5000, gain |-> 1000, waveform |-> "sawtooth",
       moving |-> TRUE, vx |-> 100, vz |-> -50],
      [y |-> -20, frequency |-> 8000, gain |-> 2000, waveform |-> "sine",
       moving |-> FALSE, vx |-> -60, vz |-> 80] }

\* listener + randomBetween(-2, 2) of the Add Emitter button.
ButtonOffsets == { <<200, -200>> }

\* Values the editor's controls produce (sliders, select, checkbox).
UiEmitterPatches ==
    { [frequency |-> 1800], [frequency |-> 16000], [gain |-> 200], [gain |-> 3000],
      [y |-> -200], [waveform |-> "square"], [moving |-> TRUE], [moving |-> FALSE] }

\* Patches of position and velocity a caller of updateEmitter can pass: a closing
\* speed equal to SOUND_SPEED, above it, fast receding, and at rest.
VelocityPatches ==
    { [x |-> 300, z |-> 0, vx |-> -34300, vz |-> 0],
      [x |-> 300, z |-> 0, vx |-> -40000, vz |-> 0],
      [x |-> 300, z |-> 0, vx |-> 40000, vz |-> 0],
      [vx |-> 0, vz |-> 0] }

UiZonePatches == { [radius |-> 50], [radius |-> 350] }

UiWallPatches == { [width |-> 50], [height |-> 800] }

\* Patches a caller of updateEmitter, updateZone and updateWall can pass: numbers in
\* and out of the ranges of the data model.
AnyEmitterPatches ==
    { [gain |-> 15000], [gain |-> -500], [gain |-> 2000],
      [frequency |-> 0], [frequency |-> -1000], [frequency |-> 5000] }

AnyZonePatches == { [radius |-> 0], [radius |-> -100], [radius |-> 200] }

AnyWallPatches == { [width |-> 0], [height |-> -50], [width |-> 300] }

----------------------------------------------------------------------------
(* Status texts *)

StatusInitial == "Press Start Audio. Move with W/A/S/D and Q/E."
StatusActive == "Audio active. Use earbuds and keep volume low."
StatusPaused == "Audio paused."
StatusUnavailable == "Web Audio API is unavailable in this browser."
StatusResumeRejected == "message of the Error that resume() rejected with"
StatusUnable == "Unable to start audio."

----------------------------------------------------------------------------
(* Initial state: the component as constructed *)

NoContext == [exists |-> FALSE, state |-> "none", pannerParams |-> FALSE]
NoObstacle == [kind |-> "none", id |-> 0]
NoDrag == [kind |-> "none", id |-> 0, offsetX |-> 0, offsetZ |-> 0]

\* The unit each id is mapped to.
UnitsOf(map) == [id \in DOMAIN map |-> map[id].serial]

\* What a handler did: its inputs, the state it started from, and its audio operations.
Obs(op) ==
    [op |-> op, arg |-> 0, listener0 |-> INITIAL_LISTENER, emitters0 |-> << >>,
     units0 |-> UnitsOf(nodeMap), running0 |-> audioRunning, forward |-> 0, strafe |-> 0,
     turn |-> 0, elapsed |-> 0, delta |-> 0,
     recon |-> FALSE, created |-> {}, disposed |-> {}, closed |-> FALSE]

\* The state after construction, with the listener at pose, the emitters ems and
\* the walls ws.
InitFrom(pose, ems, ws) ==
    /\ listener = pose
    /\ emitters = ems
    /\ collisionZones = INITIAL_ZONES
    /\ walls = ws
    /\ walkMode = TRUE
    /\ movingEnabled = TRUE
    /\ audioRunning = FALSE
    /\ status = StatusInitial
    /\ selectedEmitterId = ems[1].id
    /\ selectedObstacle = NoObstacle
    /\ dragTarget = NoDrag
    /\ emitterCounter = Len(ems) + 1
    /\ zoneCounter = Len(INITIAL_ZONES) + 1
    /\ wallCounter = Len(ws) + 1
    /\ audioContext = NoContext
    /\ audioCtor = "unprobed"
    /\ nodeMap = << >>
    /\ pendingResume = 0
    /\ pendingSuspend = 0
    /\ mounted = TRUE
    /\ nextSerial = 1
    /\ disposeCount = << >>
    /\ closeCount = 0
    /\ steps = 0
    /\ audioOps = 0
    /\ last = [op |-> "init", arg |-> 0, listener0 |-> INITIAL_LISTENER,
               emitters0 |-> << >>, units0 |-> << >>, running0 |-> FALSE,
               forward |-> 0, strafe |-> 0,
               turn |-> 0, elapsed |-> 0, delta |-> 0, recon |-> FALSE, created |-> {},
               disposed |-> {}, closed |-> FALSE]

\* The state after construction, with the listener at pose.
InitWith(pose) == InitFrom(pose, INITIAL_EMITTERS, INITIAL_WALLS)

Init == InitWith(INITIAL_LISTENER)

----------------------------------------------------------------------------
(* React effects run after a handler's state updates *)

\* disposeEmitterNode (lines 229-239) applied to each unit in serials.
disposeEmitterNodes(counts, serials) ==
    [s \in DOMAIN counts |-> IF s \in serials THEN counts[s] + 1 ELSE counts[s]]

\* Units numbered below next, the new ones not yet disposed.
CountsUpTo(counts, next) ==
    [s \in 1..(next - 1) |-> IF s \in DOMAIN counts THEN counts[s] ELSE 0]

\* A plausible slip: the effect reconciles whenever a context exists.
ReconcileGuardContextOnly(running, context) == context.exists

\* The guards of the effect (lines 729-731) and of reconnectAudioEmitters (440-443).
ReconcileGuard(running, context) == running /\ context.exists

\* The effect of lines 743-751.
NormalizeSelection(ems, sel) ==
    IF Len(ems) = 0 THEN 0
    ELSE IF sel = 0 \/ sel \notin LiveIds(ems) THEN ems[1].id ELSE sel

\* The effect of lines 728-733, run when one of its dependencies changed: it reads the
\* state the handler has just set.
AudioEffect(obs, depsChanged) ==
    LET r == reconnectAudioEmitters(nodeMap, emitters', listener', collisionZones', walls',
                                    audioContext', nextSerial)
    IN  IF depsChanged /\ ReconcileGuard(audioRunning', audioContext')
        THEN /\ nodeMap' = r.nodes
             /\ nextSerial' = r.next
             /\ disposeCount' = disposeEmitterNodes(CountsUpTo(disposeCount, r.next), r.disposed)
             /\ last' = [obs EXCEPT !.recon = TRUE, !.created = r.created,
                                    !.disposed = r.disposed]
        ELSE /\ UNCHANGED << nodeMap, nextSerial, disposeCount >>
             /\ last' = obs

audioVars == << audioRunning, status, audioContext, audioCtor, pendingResume,
                pendingSuspend, closeCount, audioOps >>

StepGuard == mounted /\ steps < MaxSteps

----------------------------------------------------------------------------
(* The animation frame *)

\* tick (lines 782-863) with the key state giving (forward, strafe, turn).
TickWith(elapsed, forward, strafe, turn) ==
    LET delta == DeltaOf(elapsed)
        obs == [Obs("tick") EXCEPT !.forward = forward, !.strafe = strafe,
                                   !.turn = turn, !.elapsed = elapsed, !.delta = delta,
                                   !.listener0 = listener, !.emitters0 = emitters]
    IN  /\ StepGuard
        /\ steps' = steps + 1
        /\ listener' = IF walkMode /\ (forward # 0 \/ strafe # 0 \/ turn # 0)
                       THEN TickListener(listener, forward, strafe, turn, delta,
                                         collisionZones, walls)
                       ELSE listener
        /\ emitters' = IF movingEnabled
                       THEN TickEmitters(emitters, delta, collisionZones, walls)
                       ELSE emitters
        /\ selectedEmitterId' = NormalizeSelection(emitters', selectedEmitterId)
        /\ UNCHANGED << collisionZones, walls, walkMode, movingEnabled, selectedObstacle,
                        dragTarget, emitterCounter, zoneCounter, wallCounter >>
        /\ UNCHANGED audioVars
        /\ UNCHANGED mounted
        /\ AudioEffect(obs, movingEnabled \/ listener'.x # listener.x
                                          \/ listener'.z # listener.z)

Tick(intents, times) ==
    \E elapsed \in times, i \in intents : TickWith(elapsed, i[1], i[2], i[3])

----------------------------------------------------------------------------
(* Emitter commands *)

\* A plausible slip: the id is taken from the length of the list.
addEmitterByLength(x, z, seed, op) ==
    LET id == Len(emitters) + 1
        newEmitter == [id |-> id, x |-> x, z |-> z, y |-> seed.y,
                       frequency |-> seed.frequency, gain |-> seed.gain,
                       waveform |-> seed.waveform, moving |-> seed.moving,
                       vx |-> seed.vx, vz |-> seed.vz]
    IN  /\ emitterCounter' = emitterCounter + 1
        /\ emitters' = Append(emitters, newEmitter)
        /\ selectedEmitterId' = NormalizeSelection(emitters', id)
        /\ steps' = steps + 1
        /\ UNCHANGED << listener, collisionZones, walls, walkMode, movingEnabled,
                        selectedObstacle, dragTarget, zoneCounter, wallCounter >>
        /\ UNCHANGED audioVars
        /\ UNCHANGED mounted
        /\ AudioEffect([Obs(op) EXCEPT !.arg = id], TRUE)

\* addEmitter (lines 649-667); seed holds the outcomes of its random draws.
addEmitter(x, z, seed, op) ==
    LET id == emitterCounter
        newEmitter == [id |-> id, x |-> x, z |-> z, y |-> seed.y,
                       frequency |-> seed.frequency, gain |-> seed.gain,
                       waveform |-> seed.waveform, moving |-> seed.moving,
                       vx |-> seed.vx, vz |-> seed.vz]
    IN  /\ emitterCounter' = emitterCounter + 1
        /\ emitters' = Append(emitters, newEmitter)
        /\ selectedEmitterId' = NormalizeSelection(emitters', id)
        /\ steps' = steps + 1
        /\ UNCHANGED << listener, collisionZones, walls, walkMode, movingEnabled,
                        selectedObstacle, dragTarget, zoneCounter, wallCounter >>
        /\ UNCHANGED audioVars
        /\ UNCHANGED mounted
        /\ AudioEffect([Obs(op) EXCEPT !.arg = id], TRUE)

\* onCanvasDoubleClick (lines 985-994).
CanvasDoubleClick ==
    \E p \in Pixels, seed \in EmitterSeeds :
        LET point == canvasToPoint(p[1], p[2], CANVAS_SIZE)
        IN  /\ StepGuard
            /\ ~collidesAt(point.x, point.z, EMITTER_RADIUS_M, collisionZones, walls)
            /\ addEmitter(point.x, point.z, seed, "doubleClick")

\* The Add Emitter button (lines 1011-1017).
AddEmitterButton(seeds) ==
    \E off \in ButtonOffsets, seed \in seeds :
        /\ StepGuard
        /\ addEmitter(listener.x + off[1], listener.z + off[2], seed, "addEmitterButton")

\* { ...entity, ...patch }
Patched(entity, patch) ==
    [f \in DOMAIN entity |-> IF f \in DOMAIN patch THEN patch[f] ELSE entity[f]]

\* The updater of updateEmitter, updateZone and updateWall (lines 696, 705, 709).
updateById(prev, id, patch) ==
    [i \in 1..Len(prev) |-> IF prev[i].id = id THEN Patched(prev[i], patch) ELSE prev[i]]

\* updateEmitter (lines 695-697) and the effects of the new emitters array.
updateEmitter(id, patch, obs) ==
    /\ emitters' = updateById(emitters, id, patch)
    /\ selectedEmitterId' = NormalizeSelection(emitters', selectedEmitterId)
    /\ steps' = steps + 1
    /\ UNCHANGED << listener, collisionZones, walls, walkMode, movingEnabled,
                    selectedObstacle, dragTarget, emitterCounter, zoneCounter, wallCounter >>
    /\ UNCHANGED audioVars
    /\ UNCHANGED mounted
    /\ AudioEffect(obs, TRUE)

\* The controls of the emitter editor (lines 1149-1212), shown for the selected emitter.
EditEmitter(patches) ==
    \E patch \in patches :
        /\ StepGuard
        /\ selectedEmitterId \in LiveIds(emitters)
        /\ updateEmitter(selectedEmitterId, patch,
                         [Obs("updateEmitter") EXCEPT !.arg = selectedEmitterId])

\* updateEmitter (lines 695-697) called with any id and patch.
PatchEmitter ==
    \E id \in LiveIds(emitters), patch \in AnyEmitterPatches :
        /\ StepGuard
        /\ updateEmitter(id, patch, [Obs("updateEmitter") EXCEPT !.arg = id])

\* updateEmitter (lines 695-697) called for the selected emitter with a position and
\* a velocity.
PatchVelocity ==
    \E patch \in VelocityPatches :
        /\ StepGuard
        /\ selectedEmitterId \in LiveIds(emitters)
        /\ updateEmitter(selectedEmitterId, patch,
                         [Obs("updateEmitter") EXCEPT !.arg = selectedEmitterId])

\* removeEmitter (lines 699-702) from the Remove Selected button (line 1214).
RemoveEmitter ==
    LET id == selectedEmitterId
    IN  /\ StepGuard
        /\ id \in LiveIds(emitters)
        /\ emitters' = SelectSeq(emitters, LAMBDA e : e.id # id)
        /\ selectedEmitterId' = NormalizeSelection(emitters', 0)
        /\ steps' = steps + 1
        /\ UNCHANGED << listener, collisionZones, walls, walkMode, movingEnabled,
                        selectedObstacle, dragTarget, emitterCounter, zoneCounter,
                        wallCounter >>
        /\ UNCHANGED audioVars
        /\ UNCHANGED mounted
        /\ AudioEffect([Obs("removeEmitter") EXCEPT !.arg = id], TRUE)

\* A click on an emitter card (line 1139).
SelectEmitter ==
    \E i \in 1..Len(emitters) :
        /\ mounted
        /\ emitters[i].id # selectedEmitterId
        /\ selectedEmitterId' = emitters[i].id
        /\ UNCHANGED << listener, emitters, collisionZones, walls, walkMode, movingEnabled,
                        selectedObstacle, dragTarget, emitterCounter, zoneCounter,
                        wallCounter, steps >>
        /\ UNCHANGED audioVars
        /\ UNCHANGED << mounted, nodeMap, nextSerial, disposeCount, last >>

----------------------------------------------------------------------------
(* Obstacle commands *)

ObstacleFrame ==
    /\ steps' = steps + 1
    /\ UNCHANGED << listener, emitters, walkMode, movingEnabled, selectedEmitterId,
                    dragTarget, emitterCounter >>
    /\ UNCHANGED audioVars
    /\ UNCHANGED mounted

\* addZone (lines 669-680).
AddZone ==
    \E seed \in ZoneSeeds :
        LET id == zoneCounter
        IN  /\ StepGuard
            /\ zoneCounter' = zoneCounter + 1
            /\ collisionZones' = Append(collisionZones,
                                        [id |-> id, x |-> seed.x, z |-> seed.z,
                                         radius |-> seed.radius])
            /\ selectedObstacle' = [kind |-> "zone", id |-> id]
            /\ UNCHANGED << walls, wallCounter >>
            /\ ObstacleFrame
            /\ AudioEffect([Obs("addZone") EXCEPT !.arg = id], TRUE)

\* addWall (lines 682-693).
AddWall ==
    \E seed \in WallSeeds :
        LET id == wallCounter
        IN  /\ StepGuard
            /\ wallCounter' = wallCounter + 1
            /\ walls' = Append(walls, [id |-> id, x |-> seed.x, z |-> seed.z,
                                       width |-> seed.width, height |-> seed.height])
            /\ selectedObstacle' = [kind |-> "wall", id |-> id]
            /\ UNCHANGED << collisionZones, zoneCounter >>
            /\ ObstacleFrame
            /\ AudioEffect([Obs("addWall") EXCEPT !.arg = id], TRUE)

\* updateZone (lines 704-706).
updateZone(id, patch, obs) ==
    /\ collisionZones' = updateById(collisionZones, id, patch)
    /\ UNCHANGED << walls, zoneCounter, wallCounter, selectedObstacle >>
    /\ ObstacleFrame
    /\ AudioEffect(obs, TRUE)

\* updateWall (lines 708-710).
updateWall(id, patch, obs) ==
    /\ walls' = updateById(walls, id, patch)
    /\ UNCHANGED << collisionZones, zoneCounter, wallCounter, selectedObstacle >>
    /\ ObstacleFrame
    /\ AudioEffect(obs, TRUE)

\* The zone editor (lines 1058-1074), shown for the selected zone.
EditZone(patches) ==
    \E patch \in patches :
        /\ StepGuard
        /\ selectedObstacle.kind = "zone"
        /\ selectedObstacle.id \in LiveIds(collisionZones)
        /\ updateZone(selectedObstacle.id, patch,
                      [Obs("updateZone") EXCEPT !.arg = selectedObstacle.id])

\* The wall editor (lines 1076-1105), shown for the selected wall.
EditWall(patches) ==
    \E patch \in patches :
        /\ StepGuard
        /\ selectedObstacle.kind = "wall"
        /\ selectedObstacle.id \in LiveIds(walls)
        /\ updateWall(selectedObstacle.id, patch,
                      [Obs("updateWall") EXCEPT !.arg = selectedObstacle.id])

\* updateZone (lines 704-706) called with any id and patch.
PatchZone ==
    \E id \in LiveIds(collisionZones), patch \in AnyZonePatches :
        /\ StepGuard
        /\ updateZone(id, patch, [Obs("updateZone") EXCEPT !.arg = id])

\* updateWall (lines 708-710) called with any id and patch.
PatchWall ==
    \E id \in LiveIds(walls), patch \in AnyWallPatches :
        /\ StepGuard
        /\ updateWall(id, patch, [Obs("updateWall") EXCEPT !.arg = id])

\* removeSelectedObstacle (lines 712-722).
RemoveSelectedObstacle ==
    /\ StepGuard
    /\ selectedObstacle.kind # "none"
    /\ IF selectedObstacle.kind = "zone"
       THEN /\ collisionZones' = SelectSeq(collisionZones,
                                           LAMBDA zone : zone.id # selectedObstacle.id)
            /\ UNCHANGED walls
       ELSE /\ walls' = SelectSeq(walls, LAMBDA wall : wall.id # selectedObstacle.id)
            /\ UNCHANGED collisionZones
    /\ selectedObstacle' = NoObstacle
    /\ UNCHANGED << zoneCounter, wallCounter >>
    /\ ObstacleFrame
    /\ AudioEffect([Obs("removeObstacle") EXCEPT !.arg = selectedObstacle.id], TRUE)

----------------------------------------------------------------------------
(* Pointer handlers of the canvas *)

\* Squared distance, in tenths of a pixel, from the pointer to emitter i on the canvas.
PointerDist2(px, py, ems, i) ==
    LET point == pointToCanvas(ems[i].x, ems[i].z, CANVAS_SIZE)
    IN  (10 * px - point.x) * (10 * px - point.x) + (10 * py - point.y) * (10 * py - point.y)

GrabRadius == 220       \* distance < 22 pixels

\* Lines 897-907: the nearest emitter within reach, the earliest on a tie; 0 if none.
NearestEmitter(px, py, ems) ==
    LET near == {i \in 1..Len(ems) : PointerDist2(px, py, ems, i) < GrabRadius * GrabRadius}
    IN  IF near = {} THEN 0
        ELSE (CHOOSE i \in near :
                \A j \in near :
                    \/ PointerDist2(px, py, ems, i) < PointerDist2(px, py, ems, j)
                    \/ PointerDist2(px, py, ems, i) = PointerDist2(px, py, ems, j) /\ i <= j)

\* Lines 916-929: the first zone under the pointer; 0 if none.
ZoneUnder(point, zones) ==
    LET hit == {i \in 1..Len(zones) :
                    HypotLeq(point.x - zones[i].x, point.z - zones[i].z, zones[i].radius)}
    IN  IF hit = {} THEN 0 ELSE CHOOSE i \in hit : \A j \in hit : i <= j

\* Lines 931-947: the first wall under the pointer; 0 if none.
WallUnder(point, ws) ==
    LET hit == {i \in 1..Len(ws) : InWall(point.x, point.z, 0, ws[i])}
    IN  IF hit = {} THEN 0 ELSE CHOOSE i \in hit : \A j \in hit : i <= j

\* Pressing and releasing the pointer changes no dependency of the audio effect.
PointerFrame ==
    /\ UNCHANGED << listener, walkMode, movingEnabled, emitterCounter, zoneCounter,
                    wallCounter >>
    /\ UNCHANGED audioVars
    /\ UNCHANGED << mounted, nodeMap, nextSerial, disposeCount, last >>

\* onCanvasPointerDown (lines 892-948).
CanvasPointerDown ==
    \E p \in Pixels :
        LET pointerWorld == canvasToPoint(p[1], p[2], CANVAS_SIZE)
            e == NearestEmitter(p[1], p[2], emitters)
            zi == ZoneUnder(pointerWorld, collisionZones)
            wi == WallUnder(pointerWorld, walls)
        IN  /\ mounted
            /\ e # 0 \/ zi # 0 \/ wi # 0
            /\ dragTarget' =
                 IF e # 0 THEN [kind |-> "emitter", id |-> emitters[e].id,
                                offsetX |-> 0, offsetZ |-> 0]
                 ELSE IF zi # 0
                      THEN [kind |-> "zone", id |-> collisionZones[zi].id,
                            offsetX |-> pointerWorld.x - collisionZones[zi].x,
                            offsetZ |-> pointerWorld.z - collisionZones[zi].z]
                      ELSE [kind |-> "wall", id |-> walls[wi].id,
                            offsetX |-> pointerWorld.x - walls[wi].x,
                            offsetZ |-> pointerWorld.z - walls[wi].z]
            /\ selectedEmitterId' = IF e # 0 THEN emitters[e].id ELSE selectedEmitterId
            /\ selectedObstacle' =
                 IF e # 0 THEN selectedObstacle
                 ELSE IF zi # 0 THEN [kind |-> "zone", id |-> collisionZones[zi].id]
                      ELSE [kind |-> "wall", id |-> walls[wi].id]
            /\ UNCHANGED << emitters, collisionZones, walls, steps >>
            /\ PointerFrame

\* onCanvasPointerMove (lines 950-976).
CanvasPointerMove ==
    \E p \in Pixels :
        LET point == canvasToPoint(p[1], p[2], CANVAS_SIZE)
            moved == [x |-> clamp(point.x - dragTarget.offsetX,
                                  -WORLD_RADIUS_M, WORLD_RADIUS_M),
                      z |-> clamp(point.z - dragTarget.offsetZ,
                                  -WORLD_RADIUS_M, WORLD_RADIUS_M)]
            obs == [Obs("pointerMove") EXCEPT !.arg = dragTarget.id]
        IN  /\ StepGuard
            /\ dragTarget.kind # "none"
            /\ IF dragTarget.kind = "emitter"
               THEN updateEmitter(dragTarget.id, [x |-> point.x, z |-> point.z], obs)
               ELSE IF dragTarget.kind = "zone"
                    THEN updateZone(dragTarget.id, moved, obs)
                    ELSE updateWall(dragTarget.id, moved, obs)

\* onCanvasPointerUp (lines 978-983), also bound to pointerleave.
CanvasPointerUp ==
    /\ mounted
    /\ dragTarget.kind # "none"
    /\ dragTarget' = NoDrag
    /\ UNCHANGED << emitters, collisionZones, walls, selectedEmitterId, selectedObstacle,
                    steps >>
    /\ PointerFrame

----------------------------------------------------------------------------
(* Listener reset and mode toggles *)

ModeFrame ==
    /\ steps' = steps + 1
    /\ UNCHANGED << emitters, collisionZones, walls, selectedEmitterId, selectedObstacle,
                    dragTarget, emitterCounter, zoneCounter, wallCounter >>
    /\ UNCHANGED audioVars
    /\ UNCHANGED mounted

\* The Reset Listener button (line 1008).
ResetListener ==
    /\ StepGuard
    /\ listener' = INITIAL_LISTENER
    /\ UNCHANGED << walkMode, movingEnabled >>
    /\ ModeFrame
    /\ AudioEffect(Obs("resetListener"),
                   listener.x # INITIAL_LISTENER.x \/ listener.z # INITIAL_LISTENER.z)

\* The Walk mode checkbox (line 1022).
SetWalkMode ==
    /\ StepGuard
    /\ walkMode' = ~walkMode
    /\ UNCHANGED << listener, movingEnabled >>
    /\ ModeFrame
    /\ AudioEffect(Obs("setWalkMode"), FALSE)

\* The Moving emitters checkbox (lines 1026-1030).
SetMovingEnabled ==
    /\ StepGuard
    /\ movingEnabled' = ~movingEnabled
    /\ UNCHANGED << listener, walkMode >>
    /\ ModeFrame
    /\ AudioEffect(Obs("setMovingEnabled"), FALSE)

----------------------------------------------------------------------------
(* Audio lifecycle *)

AudioFrame ==
    /\ UNCHANGED worldVars
    /\ UNCHANGED << steps, mounted, closeCount >>

\* getAudioContext (lines 374-394): the context it returns, an absent one if it throws.
getAudioContext(context, ctor, pannerParams) ==
    IF context.exists THEN context
    ELSE IF ctor = "absent" THEN NoContext
         ELSE [exists |-> TRUE, state |-> "suspended", pannerParams |-> pannerParams]

\* startAudio up to its await (lines 625-628), from the Start Audio button (line 1005).
\* The catch block (lines 632-635) handles the throw of getAudioContext.
StartAudio ==
    \E ctor \in {"present", "absent"}, pannerParams \in BOOLEAN :
        LET context == getAudioContext(audioContext, ctor, pannerParams)
        IN  /\ mounted
            /\ ~audioRunning
            /\ audioOps < MaxAudioOps
            /\ audioOps' = audioOps + 1
            /\ audioCtor = "unprobed" \/ audioCtor = ctor
            /\ audioContext.exists => pannerParams = audioContext.pannerParams
            /\ audioCtor' = IF audioContext.exists THEN audioCtor ELSE ctor
            /\ audioContext' = context
            /\ IF context.exists
               THEN /\ pendingResume' = pendingResume + 1
                    /\ UNCHANGED status
               ELSE /\ status' = StatusUnavailable
                    /\ UNCHANGED pendingResume
            /\ UNCHANGED << audioRunning, pendingSuspend >>
            /\ AudioFrame
            /\ AudioEffect(Obs(IF context.exists THEN "startAudio" ELSE "startAudioFailed"),
                           FALSE)

\* startAudio after context.resume() resolved (lines 629-631).
ResumeResolved ==
    /\ mounted
    /\ pendingResume > 0
    /\ pendingResume' = pendingResume - 1
    /\ audioContext' = [audioContext EXCEPT !.state = "running"]
    /\ audioRunning' = TRUE
    /\ status' = StatusActive
    /\ UNCHANGED << audioCtor, pendingSuspend, audioOps >>
    /\ AudioFrame
    /\ AudioEffect(Obs("resumeResolved"), audioRunning' # audioRunning)

\* A plausible slip: no fallback text when the thrown value is not an Error.
CatchMessageNoFallback(isError) == IF isError THEN StatusResumeRejected ELSE "undefined"

\* The message the catch block of startAudio shows (lines 633-634).
CatchMessage(isError) == IF isError THEN StatusResumeRejected ELSE StatusUnable

\* startAudio after context.resume() rejected (lines 632-635).
ResumeRejected ==
    \E isError \in BOOLEAN :
        /\ mounted
        /\ pendingResume > 0
        /\ pendingResume' = pendingResume - 1
        /\ status' = CatchMessage(isError)
        /\ UNCHANGED << audioRunning, audioContext, audioCtor, pendingSuspend, audioOps >>
        /\ AudioFrame
        /\ AudioEffect(Obs("startAudioFailed"), FALSE)

\* stopAudio up to its await (lines 638-644), from the Pause Audio button (line 1005).
StopAudio ==
    /\ mounted
    /\ audioRunning
    /\ audioOps < MaxAudioOps
    /\ audioOps' = audioOps + 1
    /\ IF ~audioContext.exists
       THEN /\ audioRunning' = FALSE
            /\ UNCHANGED pendingSuspend
       ELSE /\ pendingSuspend' = pendingSuspend + 1
            /\ UNCHANGED audioRunning
    /\ UNCHANGED << status, audioContext, audioCtor, pendingResume >>
    /\ AudioFrame
    /\ AudioEffect(Obs("stopAudio"), audioRunning' # audioRunning)

\* stopAudio after context.suspend() resolved (lines 645-646).
SuspendResolved ==
    /\ mounted
    /\ pendingSuspend > 0
    /\ pendingSuspend' = pendingSuspend - 1
    /\ audioContext' = [audioContext EXCEPT !.state = "suspended"]
    /\ audioRunning' = FALSE
    /\ status' = StatusPaused
    /\ UNCHANGED << audioCtor, pendingResume, audioOps >>
    /\ AudioFrame
    /\ AudioEffect(Obs("stopAudioDone"), audioRunning' # audioRunning)

\* A plausible slip: the cleanup closes the context and forgets the units.
UnmountKeepsUnits ==
    /\ mounted
    /\ mounted' = FALSE
    /\ closeCount' = IF audioContext.exists THEN closeCount + 1 ELSE closeCount
    /\ audioContext' = IF audioContext.exists
                       THEN [audioContext EXCEPT !.state = "closed"]
                       ELSE audioContext
    /\ last' = [Obs("unmount") EXCEPT !.closed = audioContext.exists]
    /\ UNCHANGED worldVars
    /\ UNCHANGED << audioRunning, status, audioCtor, pendingResume, pendingSuspend,
                    nextSerial, steps, audioOps, nodeMap, disposeCount >>

\* The cleanup of the unmount effect (lines 871-881).
Unmount ==
    /\ mounted
    /\ mounted' = FALSE
    /\ disposeCount' = disposeEmitterNodes(disposeCount,
                                           {nodeMap[id].serial : id \in DOMAIN nodeMap})
    /\ nodeMap' = << >>
    /\ closeCount' = IF audioContext.exists THEN closeCount + 1 ELSE closeCount
    /\ audioContext' = IF audioContext.exists
                       THEN [audioContext EXCEPT !.state = "closed"]
                       ELSE audioContext
    /\ last' = [Obs("unmount") EXCEPT
                   !.disposed = {nodeMap[id].serial : id \in DOMAIN nodeMap},
                   !.closed = audioContext.exists]
    /\ UNCHANGED worldVars
    /\ UNCHANGED << audioRunning, status, audioCtor, pendingResume, pendingSuspend,
                    nextSerial, steps, audioOps >>

----------------------------------------------------------------------------
(* Specifications *)

\* Walking among obstacles: frames with every movement intent, obstacle commands.
Next ==
    \/ Tick(AllIntents, ElapsedMs)
    \/ AddZone
    \/ AddWall
    \/ EditZone(UiZonePatches)
    \/ EditWall(UiWallPatches)
    \/ RemoveSelectedObstacle
    \/ ResetListener
    \/ SetWalkMode

Spec == Init /\ [][Next]_vars

\* Emitters: frames, adding, dragging on the canvas, the motion toggles.
EmitterIntents == { <<0, 0, 0>>, <<1, 0, 1>> }

NextEmitters ==
    \/ Tick(EmitterIntents, ElapsedMs)
    \/ CanvasDoubleClick
    \/ AddEmitterButton(EmitterSeeds)
    \/ CanvasPointerDown
    \/ CanvasPointerMove
    \/ CanvasPointerUp
    \/ SetMovingEnabled

SpecEmitters == Init /\ [][NextEmitters]_vars

\* The audio subsystem: starting, pausing, closing the view, with emitters added and
\* removed and frames in between.
AudioIntents == { <<1, 0, 0>> }
AudioElapsedMs == { 20 }
AudioSeeds == { s \in EmitterSeeds : s.moving }

NextAudio ==
    \/ StartAudio
    \/ ResumeResolved
    \/ ResumeRejected
    \/ StopAudio
    \/ SuspendResolved
    \/ Unmount
    \/ Tick(AudioIntents, AudioElapsedMs)
    \/ RemoveEmitter
    \/ AddEmitterButton(AudioSeeds)

SpecAudio == Init /\ [][NextAudio]_vars

\* Field patches: the editor of the selected emitter, and updateEmitter, updateZone
\* and updateWall called with arbitrary values.
NextEdit ==
    \/ PatchEmitter
    \/ PatchZone
    \/ PatchWall
    \/ EditEmitter(UiEmitterPatches)
    \/ SelectEmitter

SpecEdit == Init /\ [][NextEdit]_vars

\* Frames of 40 ms with the forward key held that take the listener from the start
\* to the edge of the world.
FramesToEdge == 141

\* The listener after k such frames, if nothing is in its way: each frame moves it
\* by the same stride.
WalkedForward(k) ==
    LET first == DesiredPose(INITIAL_LISTENER, 1, 0, 0, MaxDeltaMs)
    IN  [x |-> first.x * k, z |-> first.z * k, headingDeg |-> first.headingDeg]

\* Nothing is in its way: the pose of every frame on the way is free in the initial
\* geometry, so tick takes it.
WalkIsFree ==
    \A k \in 1..FramesToEdge :
        ~collidesAt(WalkedForward(k).x, WalkedForward(k).z, PLAYER_RADIUS_M,
                    INITIAL_ZONES, INITIAL_WALLS)

FarListener == WalkedForward(FramesToEdge)

\* Adding and removing entities, from the start and with the listener walked to the
\* edge of the world.
InitAdd ==
    \E pose \in {INITIAL_LISTENER, FarListener} :
        /\ pose = FarListener => WalkIsFree
        /\ InitWith(pose)

NextAdd ==
    \/ CanvasDoubleClick
    \/ AddEmitterButton(EmitterSeeds)
    \/ RemoveEmitter
    \/ SelectEmitter
    \/ AddZone
    \/ AddWall
    \/ RemoveSelectedObstacle

SpecAdd == InitAdd /\ [][NextAdd]_vars

\* The Doppler computation: audio started, emitter velocities patched, frames.
NextDoppler ==
    \/ StartAudio
    \/ ResumeResolved
    \/ PatchVelocity
    \/ Tick(AudioIntents, AudioElapsedMs)

SpecDoppler == Init /\ [][NextDoppler]_vars

\* Occlusion: audio started, obstacles added and removed, frames.
NextOcclusion ==
    \/ StartAudio
    \/ ResumeResolved
    \/ AddZone
    \/ AddWall
    \/ RemoveSelectedObstacle
    \/ Tick(AudioIntents, AudioElapsedMs)

SpecOcclusion == Init /\ [][NextOcclusion]_vars

\* Places emitter-1 can be dragged to: next to the left side of wall-2, above
\* wall-1, into the corner of the canvas, and its initial place.
DraggedTo == { <<103, -200>>, <<-600, 317>>, <<1600, 1600>>, <<-600, 500>> }

\* A fourth wall, added and then dragged and resized, that leaves a corridor of
\* 75 cm along the left side of wall-2; or no fourth wall.
ExtraWalls ==
    { << >>, << [id |-> 4, x |-> 5, z |-> -200, width |-> 120, height |-> 100] >> }

\* Emitter motion among obstacles: emitter-1 dragged, a wall added, then frames and
\* the two motion toggles.
InitBounce ==
    \E at \in DraggedTo, extra \in ExtraWalls :
        InitFrom(INITIAL_LISTENER,
                 [INITIAL_EMITTERS EXCEPT ![1].x = at[1], ![1].z = at[2]],
                 INITIAL_WALLS \o extra)

\* The moving checkbox of the emitter editor (lines 1206-1210).
MovingPatches == { [moving |-> FALSE], [moving |-> TRUE] }

NextBounce ==
    \/ Tick(EmitterIntents, ElapsedMs)
    \/ SetWalkMode
    \/ SetMovingEnabled
    \/ EditEmitter(MovingPatches)

SpecBounce == InitBounce /\ [][NextBounce]_vars

\* Emitters at rest while audio runs: the global motion toggle, the moving checkbox,
\* an added emitter whose moving flag was drawn false, and frames.
StillSeeds == { s \in EmitterSeeds : ~s.moving }

NextStill ==
    \/ StartAudio
    \/ ResumeResolved
    \/ SetMovingEnabled
    \/ EditEmitter(MovingPatches)
    \/ AddEmitterButton(StillSeeds)
    \/ Tick(AudioIntents, AudioElapsedMs)

SpecStill == Init /\ [][NextStill]_vars

\* The state after Start Audio, resume() resolved, Pause Audio, suspend() resolved:
\* the units of the three initial emitters exist and audio is not running.
InitAfterPause ==
    \E pannerParams \in BOOLEAN :
        LET context == [exists |-> TRUE, state |-> "running", pannerParams |-> pannerParams]
            r == reconnectAudioEmitters(<< >>, INITIAL_EMITTERS, INITIAL_LISTENER,
                                        INITIAL_ZONES, INITIAL_WALLS, context, 1)
        IN  /\ listener = INITIAL_LISTENER
            /\ emitters = INITIAL_EMITTERS
            /\ collisionZones = INITIAL_ZONES
            /\ walls = INITIAL_WALLS
            /\ walkMode = TRUE
            /\ movingEnabled = TRUE
            /\ audioRunning = FALSE
            /\ status = StatusPaused
            /\ selectedEmitterId = INITIAL_EMITTERS[1].id
            /\ selectedObstacle = NoObstacle
            /\ dragTarget = NoDrag
            /\ emitterCounter = Len(INITIAL_EMITTERS) + 1
            /\ zoneCounter = Len(INITIAL_ZONES) + 1
            /\ wallCounter = Len(INITIAL_WALLS) + 1
            /\ audioContext = [context EXCEPT !.state = "suspended"]
            /\ audioCtor = "present"
            /\ nodeMap = r.nodes
            /\ pendingResume = 0
            /\ pendingSuspend = 0
            /\ mounted = TRUE
            /\ nextSerial = r.next
            /\ disposeCount = CountsUpTo(<< >>, r.next)
            /\ closeCount = 0
            /\ steps = 0
            /\ audioOps = 2
            /\ last = [op |-> "stopAudioDone", arg |-> 0, listener0 |-> INITIAL_LISTENER,
                       emitters0 |-> << >>, units0 |-> UnitsOf(r.nodes), running0 |-> TRUE,
                       forward |-> 0, strafe |-> 0, turn |-> 0, elapsed |-> 0, delta |-> 0,
                       recon |-> FALSE, created |-> {}, disposed |-> {}, closed |-> FALSE]

\* Audio never started, or started once and paused.
InitPaused == Init \/ InitAfterPause

\* Editing the world while audio is stopped, starting audio, closing the view.
NextPaused ==
    \/ StartAudio
    \/ ResumeResolved
    \/ Unmount
    \/ Tick(AudioIntents, AudioElapsedMs)
    \/ AddEmitterButton(AudioSeeds)
    \/ EditEmitter(MovingPatches)
    \/ RemoveEmitter
    \/ AddWall
    \/ RemoveSelectedObstacle

SpecPaused == InitPaused /\ [][NextPaused]_vars

----------------------------------------------------------------------------
(* Claims *)

ListenerCollides(pose) ==
    collidesAt(pose.x, pose.z, PLAYER_RADIUS_M, collisionZones, walls)

\* The last handler was a frame that moved the listener from a free position.
ListenerTicked ==
    /\ last.op = "tick"
    /\ walkMode
    /\ last.forward # 0 \/ last.strafe # 0 \/ last.turn # 0
    /\ ~ListenerCollides(last.listener0)

LastDesired ==
    DesiredPose(last.listener0, last.forward, last.strafe, last.turn, last.delta)

\* C1: a frame that starts with the listener at a position that does not collide
\* leaves it at a position that does not collide: the desired position if it is free,
\* else the X-slide (old Z) if that is free, else the Z-slide (old X) if that is
\* free, else the old position.
C1_SlideOrReject ==
    ListenerTicked =>
        LET d == LastDesired
            old == last.listener0
            xSlide == [d EXCEPT !.z = old.z]
            zSlide == [d EXCEPT !.x = old.x]
        IN  /\ ~ListenerCollides(listener)
            /\ listener = IF ~ListenerCollides(d) THEN d
                          ELSE IF ~ListenerCollides(xSlide) THEN xSlide
                          ELSE IF ~ListenerCollides(zSlide) THEN zSlide
                          ELSE [d EXCEPT !.x = old.x, !.z = old.z]

\* C1 witness: a frame whose desired position and both slides collide, so the move
\* is rejected.
C1_Witness ==
    /\ ListenerTicked
    /\ ListenerCollides(LastDesired)
    /\ ListenerCollides([LastDesired EXCEPT !.z = last.listener0.z])
    /\ ListenerCollides([LastDesired EXCEPT !.x = last.listener0.x])
    /\ LastDesired.x # last.listener0.x
    /\ LastDesired.z # last.listener0.z
    /\ listener.x = last.listener0.x
    /\ listener.z = last.listener0.z

WithinWorld(p) == HypotLeq(p.x, p.z, WORLD_RADIUS_M)

\* C2: after every frame the listener and every emitter are at most WORLD_RADIUS
\* from the origin.
C2_AllWithinWorld ==
    last.op = "tick" =>
        /\ WithinWorld(listener)
        /\ \A i \in 1..Len(emitters) : WithinWorld(emitters[i])

\* The emitters paired with their units after a reconciliation.
UnitOf(e) == nodeMap[e.id]

Occluded(e) == occludedBy(e, listener, collisionZones, walls)

\* C3: a reconciliation that runs (audio running, context present) ends with the ids
\* of the unit map equal to the live emitter ids, one unit per id: the units of ids
\* that are no longer live are disposed and deleted, the units of live ids are kept,
\* and each live id that had no unit gets exactly one new unit.
C3_MapMatchesLive ==
    last.recon =>
        LET before == last.units0
            live == LiveIds(emitters)
        IN  /\ DOMAIN nodeMap = live
            /\ \A a, b \in DOMAIN nodeMap :
                   nodeMap[a].serial = nodeMap[b].serial => a = b
            /\ last.disposed = {before[id] : id \in DOMAIN before \ live}
            /\ \A s \in last.disposed : disposeCount[s] = 1
            /\ \A id \in DOMAIN before \cap live : nodeMap[id].serial = before[id]
            /\ \A id \in live \ DOMAIN before :
                   /\ nodeMap[id].serial \in last.created
                   /\ disposeCount[nodeMap[id].serial] = 0
            /\ Cardinality(last.created) = Cardinality(live \ DOMAIN before)

\* C3 witness: removing an emitter while audio runs disposes its unit and keeps the
\* units of the other emitters.
C3_Witness ==
    /\ last.op = "removeEmitter"
    /\ last.recon
    /\ last.disposed # {}
    /\ DOMAIN nodeMap # {}
    /\ last.arg \notin DOMAIN nodeMap

\* C4: once removeEmitter(id) and its effects have run, the unit map holds no unit
\* for id, and it holds no unit for any id that is not a live emitter, audio running
\* or paused.
C4_RemoveDisposes ==
    last.op = "removeEmitter" =>
        /\ last.arg \notin DOMAIN nodeMap
        /\ DOMAIN nodeMap \subseteq LiveIds(emitters)

\* C5: a reconciliation that starts from a unit map holding one unit for each live
\* emitter id, as the previous reconciliation of the same live set left it, creates
\* no unit and disposes no unit, and leaves the same units in the map.
C5_SecondRunIdle ==
    (last.recon /\ DOMAIN last.units0 = LiveIds(emitters)) =>
        /\ last.created = {}
        /\ last.disposed = {}
        /\ UnitsOf(nodeMap) = last.units0

\* C5 witness: a frame while audio runs reconciles the emitters that already have
\* their units.
C5_Witness ==
    /\ last.op = "tick"
    /\ last.recon
    /\ last.units0 # << >>
    /\ DOMAIN last.units0 = LiveIds(emitters)

\* C6: a unit created by a reconciliation has the Doppler-observed frequency, the
\* effective gain and the cutoff selected by the occlusion flag of its emitter.
C6_CreatedAtTarget ==
    last.recon =>
        \A i \in 1..Len(emitters) :
            LET e == emitters[i]
            IN  UnitOf(e).serial \in last.created =>
                    /\ UnitOf(e).frequency.value = observedFreq(e, listener)
                    /\ UnitOf(e).gain.value = gainTarget(e, Occluded(e))
                    /\ UnitOf(e).filter.value = cutoffTarget(Occluded(e))

Ramps == {"setTargetAtTime", "linearRampToValueAtTime", "exponentialRampToValueAtTime"}

Steps == {"assign", "setValueAtTime", "setPosition"}

\* C7 as stated: for a unit that exists when a reconciliation runs, each of
\* frequency, gain, filter cutoff, position and waveform is written as a ramp.
C7_AllRamped ==
    last.recon =>
        \A i \in 1..Len(emitters) :
            LET e == emitters[i]
            IN  e.id \in DOMAIN last.units0 =>
                    /\ UnitOf(e).frequency.how \in Ramps
                    /\ UnitOf(e).gain.how \in Ramps
                    /\ UnitOf(e).filter.how \in Ramps
                    /\ UnitOf(e).panner.how \in Ramps
                    /\ UnitOf(e).typeHow \in Ramps

\* C7: for a unit that exists when a reconciliation runs, frequency, gain and filter
\* cutoff are written as ramps toward their targets with time constants of 40 ms,
\* 40 ms and 50 ms; the position and the waveform are written as immediate steps to
\* the emitter's position and waveform.
C7_ThreeRampedTwoStepped ==
    last.recon =>
        \A i \in 1..Len(emitters) :
            LET e == emitters[i]
            IN  e.id \in DOMAIN last.units0 =>
                    /\ UnitOf(e).frequency =
                           ParamWrite(observedFreq(e, listener), "setTargetAtTime", 40)
                    /\ UnitOf(e).gain =
                           ParamWrite(gainTarget(e, Occluded(e)), "setTargetAtTime", 40)
                    /\ UnitOf(e).filter =
                           ParamWrite(cutoffTarget(Occluded(e)), "setTargetAtTime", 50)
                    /\ UnitOf(e).panner.how \in Steps
                    /\ UnitOf(e).panner.x = e.x
                    /\ UnitOf(e).panner.y = e.y
                    /\ UnitOf(e).panner.z = e.z
                    /\ UnitOf(e).typeHow \in Steps
                    /\ UnitOf(e).type = e.waveform

\* C7 witness: a reconciliation updates the unit of a moving, occluded emitter.
C7_Witness ==
    /\ last.recon
    /\ \E i \in 1..Len(emitters) :
           /\ emitters[i].id \in DOMAIN last.units0
           /\ Occluded(emitters[i])
           /\ UnitOf(emitters[i]).frequency.value # emitters[i].frequency
           /\ UnitOf(emitters[i]).gain.value # emitters[i].gain

AllDisposedOnce == \A s \in DOMAIN disposeCount : disposeCount[s] = 1

ErrorStatuses == {StatusUnavailable, StatusResumeRejected, StatusUnable}

\* C9: a startAudio that fails (no constructor, or resume rejected) shows one error
\* status, leaves audioRunning as it was (false when audio was not running), creates
\* no unit and leaves the frame loop scheduled; a frame after the failure updates
\* the listener and the emitters as the frame's own rules say.
C9_FailureKeepsTicking ==
    /\ last.op = "startAudioFailed" =>
           /\ status \in ErrorStatuses
           /\ audioRunning = last.running0
           /\ ~last.recon
           /\ last.created = {}
           /\ UnitsOf(nodeMap) = last.units0
           /\ mounted
           /\ steps < MaxSteps => StepGuard
    /\ (last.op = "tick" /\ status \in ErrorStatuses) =>
           /\ listener = IF walkMode /\ (last.forward # 0 \/ last.strafe # 0
                                                         \/ last.turn # 0)
                         THEN TickListener(last.listener0, last.forward, last.strafe,
                                           last.turn, last.delta, collisionZones, walls)
                         ELSE last.listener0
           /\ emitters = IF movingEnabled
                         THEN TickEmitters(last.emitters0, last.delta, collisionZones,
                                           walls)
                         ELSE last.emitters0

\* C9 witness: after a failed start, with audio off and no unit, a frame moves the
\* listener and the emitters.
C9_Witness ==
    /\ last.op = "tick"
    /\ status \in ErrorStatuses
    /\ ~audioRunning
    /\ nodeMap = << >>
    /\ listener # last.listener0
    /\ emitters # last.emitters0

EmitterById(id) == emitters[CHOOSE i \in 1..Len(emitters) : emitters[i].id = id]

\* C11: no add-emitter path stores an emitter outside the world disk: the emitter
\* added by a double-click or by the Add Emitter button is within WORLD_RADIUS of
\* the origin.
C11_AddedInsideWorld ==
    last.op \in {"doubleClick", "addEmitterButton"} =>
        WithinWorld(EmitterById(last.arg))

IdsOf(seq) == [i \in 1..Len(seq) |-> seq[i].id]

DistinctIds(seq) ==
    \A i, j \in 1..Len(seq) : i # j => seq[i].id # seq[j].id

\* One step of a collection and its counter: the ids stay distinct and below the
\* counter, the counter never decreases, the entities that remain keep their ids,
\* and a new id is the counter's value, which the step then passes.
IdStep(before, after, counter, counterAfter) ==
    /\ DistinctIds(after)
    /\ \A i \in 1..Len(after) : after[i].id < counterAfter
    /\ counterAfter >= counter
    /\ SelectSeq(IdsOf(before), LAMBDA id : id \in LiveIds(after))
           = SelectSeq(IdsOf(after), LAMBDA id : id \in LiveIds(before))
    /\ LiveIds(after) \ LiveIds(before) \subseteq {counter}
    /\ LiveIds(after) \ LiveIds(before) # {} => counterAfter = counter + 1

\* C12: over add and remove commands the ids of each collection are pairwise
\* distinct, an entity keeps its id while it exists, and each add issues an id above
\* every id issued before in that collection, so no id is reused.
C12_IdsUniqueMonotonic ==
    [][ /\ IdStep(emitters, emitters', emitterCounter, emitterCounter')
        /\ IdStep(collisionZones, collisionZones', zoneCounter, zoneCounter')
        /\ IdStep(walls, walls', wallCounter, wallCounter') ]_vars

\* C12 witness: emitter-1 was removed and the next emitter added is emitter-4.
C12_Witness ==
    /\ last.op \in {"doubleClick", "addEmitterButton"}
    /\ last.arg = 4
    /\ IdsOf(emitters) = << 2, 3, 4 >>

\* The emitters whose units a reconciliation has just updated.
UpdatedEmitters ==
    IF last.recon
    THEN {emitters[i] : i \in {j \in 1..Len(emitters) : emitters[j].id \in DOMAIN last.units0}}
    ELSE {}

\* C13: the observed frequency a reconciliation computes lies in
\* [0.6 x base, 1.8 x base] and is above 0, whatever the closing speed, SOUND_SPEED
\* and more included.
C13_DopplerBounded ==
    \A e \in UpdatedEmitters :
        /\ 10 * UnitOf(e).frequency.value >= 6 * e.frequency
        /\ 10 * UnitOf(e).frequency.value <= 18 * e.frequency
        /\ UnitOf(e).frequency.value > 0

\* C13 witness: one reconciliation meets a closing speed equal to SOUND_SPEED, or one
\* above it, and writes the upper or the lower bound.
C13_Witness ==
    \E e \in UpdatedEmitters :
        \/ /\ towardListener(e, listener) = SOUND_SPEED_MPS
           /\ 10 * UnitOf(e).frequency.value = 18 * e.frequency
        \/ /\ towardListener(e, listener) > SOUND_SPEED_MPS
           /\ 10 * UnitOf(e).frequency.value = 6 * e.frequency

\* C14: for an emitter with vx = 0 and vz = 0 the observed frequency a reconciliation
\* computes is the base frequency exactly, wherever the listener is.
C14_StationaryExact ==
    \A e \in UpdatedEmitters :
        (e.vx = 0 /\ e.vz = 0) => UnitOf(e).frequency.value = e.frequency

\* C14 witness: a frame moved the listener and the reconciliation updated the unit of
\* an emitter at rest.
C14_Witness ==
    /\ last.op = "tick"
    /\ listener # last.listener0
    /\ \E e \in UpdatedEmitters :
           /\ e.vx = 0
           /\ e.vz = 0
           /\ UnitOf(e).frequency.value = e.frequency

\* The values of t for which a + t * d lies in [lo, hi], as fractions with a
\* positive denominator: lower and upper bound; none when d = 0.
AxisLower(a, d, lo, hi) ==
    IF d > 0 THEN {[num |-> lo - a, den |-> d]}
    ELSE IF d < 0 THEN {[num |-> a - hi, den |-> -d]}
    ELSE {}

AxisUpper(a, d, lo, hi) ==
    IF d > 0 THEN {[num |-> hi - a, den |-> d]}
    ELSE IF d < 0 THEN {[num |-> a - lo, den |-> -d]}
    ELSE {}

\* The segment from (ax, az) to (bx, bz) has a point in the wall's rectangle
\* (coordinates doubled so that width / 2 is exact).
SegmentHitsWall(ax, az, bx, bz, wall) ==
    LET left == 2 * wall.x - wall.width
        right == 2 * wall.x + wall.width
        top == 2 * wall.z - wall.height
        bottom == 2 * wall.z + wall.height
        dx == 2 * (bx - ax)
        dz == 2 * (bz - az)
        lowers == {[num |-> 0, den |-> 1]} \cup AxisLower(2 * ax, dx, left, right)
                      \cup AxisLower(2 * az, dz, top, bottom)
        uppers == {[num |-> 1, den |-> 1]} \cup AxisUpper(2 * ax, dx, left, right)
                      \cup AxisUpper(2 * az, dz, top, bottom)
    IN  /\ dx = 0 => (2 * ax >= left /\ 2 * ax <= right)
        /\ dz = 0 => (2 * az >= top /\ 2 * az <= bottom)
        /\ \A l \in lowers, u \in uppers : l.num * u.den <= u.num * l.den

\* The listener-emitter segment hits a zone circle or a wall rectangle.
SegmentBlocked(e) ==
    \/ \E i \in 1..Len(collisionZones) :
           circleLineIntersection(listener.x, listener.z, e.x, e.z, collisionZones[i].x,
                                  collisionZones[i].z, collisionZones[i].radius)
    \/ \E i \in 1..Len(walls) :
           SegmentHitsWall(listener.x, listener.z, e.x, e.z, walls[i])

\* C15: for each existing unit the reconciliation writes the occluded targets (gain
\* x 0.72, cutoff 1500 Hz) exactly when the listener-emitter segment hits a zone
\* circle or a wall rectangle, and the open targets (gain, 7600 Hz) otherwise.
C15_OccludedIffSegmentHits ==
    \A e \in UpdatedEmitters :
        /\ UnitOf(e).gain.value = gainTarget(e, SegmentBlocked(e))
        /\ UnitOf(e).filter.value = cutoffTarget(SegmentBlocked(e))

\* The listener-emitter segment has one of its sample points in a wall, or hits a
\* zone circle: the two loops of the reconciliation.
SegmentSampledBlocked(e) ==
    \/ \E i \in 1..Len(collisionZones) :
           circleLineIntersection(listener.x, listener.z, e.x, e.z, collisionZones[i].x,
                                  collisionZones[i].z, collisionZones[i].radius)
    \/ \E i \in 1..Len(walls) :
           lineIntersectsWall(listener.x, listener.z, e.x, e.z, walls[i])

\* The obstacles the reconciliation finds on the listener-emitter segment.
ObstaclesOnSegment(e) ==
    {<<"zone", i>> : i \in {j \in 1..Len(collisionZones) :
          circleLineIntersection(listener.x, listener.z, e.x, e.z, collisionZones[j].x,
                                 collisionZones[j].z, collisionZones[j].radius)}}
    \cup {<<"wall", i>> : i \in {j \in 1..Len(walls) :
          lineIntersectsWall(listener.x, listener.z, e.x, e.z, walls[j])}}

\* C15: for each existing unit the reconciliation writes gain x 0.72 and 1500 Hz
\* exactly when the listener-emitter segment hits a zone circle or one of its 19
\* sample points lies in a wall rectangle, and the base gain and 7600 Hz otherwise,
\* however many obstacles are found.
C15_OccludedBySampling ==
    \A e \in UpdatedEmitters :
        /\ UnitOf(e).gain.value =
               IF SegmentSampledBlocked(e) THEN RoundDiv(e.gain * 72, 100) ELSE e.gain
        /\ UnitOf(e).filter.value = IF SegmentSampledBlocked(e) THEN 15000 ELSE 76000

\* C15 witness: a reconciliation finds two obstacles on the segment of one emitter
\* and none on the segment of another.
C15_Witness ==
    /\ \E e \in UpdatedEmitters :
           /\ Cardinality(ObstaclesOnSegment(e)) >= 2
           /\ UnitOf(e).filter.value = 15000
    /\ \E e \in UpdatedEmitters :
           /\ ObstaclesOnSegment(e) = {}
           /\ UnitOf(e).filter.value = 76000

\* The emitters a frame has just moved, each paired with what it was before.
TickedPairs ==
    IF last.op = "tick" /\ movingEnabled
    THEN {<<last.emitters0[i], emitters[i]>> : i \in 1..Len(emitters)}
    ELSE {}

EmitterCollides(x, z) == collidesAt(x, z, EMITTER_RADIUS_M, collisionZones, walls)

\* The emitter was moving, its combined move collided, its X-only move collided and
\* its Z-only move did not.
CollidesOnlyAlongX(e0) ==
    /\ e0.moving
    /\ EmitterCollides(e0.x + Travel(e0.vx, last.delta), e0.z + Travel(e0.vz, last.delta))
    /\ EmitterCollides(e0.x + Travel(e0.vx, last.delta), e0.z)
    /\ ~EmitterCollides(e0.x, e0.z + Travel(e0.vz, last.delta))

\* The position recomputed with vx negated and vz kept collides as well.
StillCollidesAfterXFlip(e0) ==
    EmitterCollides(e0.x + Travel(-e0.vx, last.delta), e0.z + Travel(e0.vz, last.delta))

\* C16 as stated: an emitter that collides only along X leaves the frame with vx
\* negated and vz unchanged.
C16_XBounceAlways ==
    \A pr \in TickedPairs :
        CollidesOnlyAlongX(pr[1]) =>
            /\ pr[2].vx = -pr[1].vx
            /\ pr[2].vz = pr[1].vz

\* C16: an emitter that collides only along X leaves the frame with vx negated and
\* vz unchanged if the position recomputed with the negated vx is free; if that
\* position collides too, both components are inverted once more, so vx is as
\* before and vz is negated. The magnitudes are unchanged in both cases.
C16_XBounceUnlessStillColliding ==
    \A pr \in TickedPairs :
        CollidesOnlyAlongX(pr[1]) =>
            /\ ~StillCollidesAfterXFlip(pr[1]) =>
                   (pr[2].vx = -pr[1].vx /\ pr[2].vz = pr[1].vz)
            /\ StillCollidesAfterXFlip(pr[1]) =>
                   (pr[2].vx = pr[1].vx /\ pr[2].vz = -pr[1].vz)
            /\ Abs(pr[2].vx) = Abs(pr[1].vx)
            /\ Abs(pr[2].vz) = Abs(pr[1].vz)

\* C16 witness: an emitter moving toward a wall on its right bounces off it.
C16_Witness ==
    \E pr \in TickedPairs :
        /\ CollidesOnlyAlongX(pr[1])
        /\ ~StillCollidesAfterXFlip(pr[1])
        /\ pr[1].vx > 0
        /\ pr[2].vx = -pr[1].vx
        /\ pr[2].x < pr[1].x

\* C17: a frame leaves |vx| and |vz| of every emitter as they were: it negates a
\* component or keeps it, and never rescales it.
C17_SpeedPreserved ==
    last.op = "tick" =>
        \A i \in 1..Len(emitters) :
            /\ emitters[i].vx \in {last.emitters0[i].vx, -last.emitters0[i].vx}
            /\ emitters[i].vz \in {last.emitters0[i].vz, -last.emitters0[i].vz}
            /\ Abs(emitters[i].vx) = Abs(last.emitters0[i].vx)
            /\ Abs(emitters[i].vz) = Abs(last.emitters0[i].vz)

\* C17 witness: a frame negated a velocity component of an emitter.
C17_Witness ==
    /\ last.op = "tick"
    /\ \E i \in 1..Len(emitters) :
           /\ emitters[i].vz # 0
           /\ emitters[i].vz = -last.emitters0[i].vz

\* The three conditions of a free position, each written on squared distances and on
\* doubled coordinates.
FitsInWorld(x, z, r) ==
    r <= WORLD_RADIUS_M /\ x * x + z * z <= (WORLD_RADIUS_M - r) * (WORLD_RADIUS_M - r)

ClearOfZone(x, z, r, zone) ==
    \/ zone.radius + r < 0
    \/ (x - zone.x) * (x - zone.x) + (z - zone.z) * (z - zone.z)
           > (zone.radius + r) * (zone.radius + r)

ClearOfWall(x, z, r, wall) ==
    \/ 2 * x < 2 * wall.x - wall.width - 2 * r
    \/ 2 * x > 2 * wall.x + wall.width + 2 * r
    \/ 2 * z < 2 * wall.z - wall.height - 2 * r
    \/ 2 * z > 2 * wall.z + wall.height + 2 * r

ClearOfZones(x, z, r) ==
    \A i \in 1..Len(collisionZones) : ClearOfZone(x, z, r, collisionZones[i])

ClearOfWalls(x, z, r) == \A i \in 1..Len(walls) : ClearOfWall(x, z, r, walls[i])

\* Positions collidesAt is asked about: the origin, the world boundary reached and
\* passed by one centimetre, zone-1 touched and missed by one centimetre, the grown
\* side of wall-2 and one centimetre before it, and open ground.
ProbePoints ==
    { <<0, 0>>, <<0, -1555>>, <<0, -1556>>, <<-275, -150>>, <<-274, -150>>,
      <<95, -200>>, <<94, -200>>, <<-100, 600>> }

ProbeRadii == { PLAYER_RADIUS_M, EMITTER_RADIUS_M }

\* The positions the last frame asked collidesAt about for the listener.
AskedPoints ==
    ProbePoints \cup
    (IF last.op = "tick"
     THEN { <<LastDesired.x, LastDesired.z>>, <<LastDesired.x, last.listener0.z>>,
            <<last.listener0.x, LastDesired.z>> }
     ELSE {})

\* C18: collidesAt answers false exactly when the position with its radius fits in
\* the world disk, is farther than zone.radius + radius from every zone centre and
\* is outside every wall rectangle grown by radius.
C18_FreeExactly ==
    \A p \in AskedPoints, r \in ProbeRadii :
        ~collidesAt(p[1], p[2], r, collisionZones, walls)
            <=> /\ FitsInWorld(p[1], p[2], r)
                /\ ClearOfZones(p[1], p[2], r)
                /\ ClearOfWalls(p[1], p[2], r)

\* C18 witness: after a zone was added there are asked positions that are free, that
\* fail only the world condition, only the zone condition (one of them touching the
\* zone exactly) and only the wall condition, and the origin is blocked by the new
\* zone alone.
C18_Witness ==
    LET r == PLAYER_RADIUS_M
        Fails(p) == << ~FitsInWorld(p[1], p[2], r), ~ClearOfZones(p[1], p[2], r),
                       ~ClearOfWalls(p[1], p[2], r) >>
    IN  /\ last.op = "addZone"
        /\ Fails(<<0, 0>>) = <<FALSE, TRUE, FALSE>>
        /\ ~collidesAt(0, 0, r, INITIAL_ZONES, walls)
        /\ collidesAt(0, 0, r, collisionZones, walls)
        /\ \E p \in ProbePoints : Fails(p) = <<FALSE, FALSE, FALSE>>
        /\ \E p \in ProbePoints : Fails(p) = <<TRUE, FALSE, FALSE>>
        /\ \E p \in ProbePoints : Fails(p) = <<FALSE, FALSE, TRUE>>
        /\ Fails(<<-275, -150>>) = <<FALSE, TRUE, FALSE>>
        /\ collidesAt(-275, -150, r, collisionZones, walls)

\* The frame of scenario A: listener at the origin facing heading 0, forward intent
\* only, 0.1 s since the previous frame, and the desired position free.
ScenarioAFrame ==
    /\ last.op = "tick"
    /\ walkMode
    /\ last.listener0 = INITIAL_LISTENER
    /\ last.forward = 1 /\ last.strafe = 0 /\ last.turn = 0
    /\ last.elapsed = 100
    /\ ~ListenerCollides(LastDesired)

\* C19 as stated: the frame of scenario A moves the listener to (0, -0.275), here to
\* the nearest centimetre.
C19_ScenarioAUnclamped ==
    ScenarioAFrame =>
        /\ listener.x = 0
        /\ listener.z \in {-28, -27}
        /\ listener.headingDeg = 0

\* C19: the frame of scenario A moves the listener along -Z by MOVE_SPEED times the
\* clamped delta of 0.04 s, to (0, -0.11), with the heading unchanged.
C19_ScenarioAClamped ==
    ScenarioAFrame =>
        /\ listener.x = 0
        /\ 1000 * listener.z = -(MOVE_SPEED_MPS * MaxDeltaMs)
        /\ listener.z = -11
        /\ listener.headingDeg = 0

\* C19 witness: the frame of scenario A ran and the listener is at (0, -0.11).
C19_Witness == ScenarioAFrame /\ listener = [x |-> 0, z |-> -11, headingDeg |-> 0]

\* C20: a frame changes no field of a non-moving emitter; with movingEnabled false
\* it changes no emitter; with walkMode false or all three intents zero it leaves
\* the listener pose as it was.
C20_FrameLeavesRest ==
    last.op = "tick" =>
        /\ \A i \in 1..Len(emitters) :
               ~last.emitters0[i].moving => emitters[i] = last.emitters0[i]
        /\ ~movingEnabled => emitters = last.emitters0
        /\ ~walkMode \/ (last.forward = 0 /\ last.strafe = 0 /\ last.turn = 0)
               => listener = last.listener0

\* C20 witness: a frame with walkMode true and a movement intent moved the listener
\* and a moving emitter, and left alone an emitter whose moving box was unticked
\* while its velocity was not zero.
C20_Witness ==
    /\ last.op = "tick"
    /\ movingEnabled /\ walkMode /\ last.forward # 0
    /\ listener # last.listener0
    /\ \E i \in 1..Len(emitters) :
           /\ ~emitters[i].moving
           /\ emitters[i].vx # 0
           /\ emitters[i] = last.emitters0[i]
    /\ \E i \in 1..Len(emitters) :
           emitters[i].moving /\ emitters[i].x # last.emitters0[i].x

\* C20 witness of the gates: a frame with a movement intent and walkMode false left
\* the listener where it was.
C20_GateWitness ==
    /\ last.op = "tick"
    /\ ~walkMode /\ last.forward # 0
    /\ listener = last.listener0

\* C21: a moving emitter that starts a frame at a position that does not collide
\* ends the frame at a position that does not collide, whichever bounce branch the
\* frame takes (zones and walls are the same before and after a frame).
C21_BounceEndsFree ==
    \A pr \in TickedPairs :
        pr[1].moving /\ ~EmitterCollides(pr[1].x, pr[1].z)
            => ~EmitterCollides(pr[2].x, pr[2].z)

\* The emitter's position is not integrated by frames.
NotIntegrated(e) == ~e.moving \/ ~movingEnabled

\* C22: the frequency target a reconciliation writes for an emitter whose position
\* is not integrated (moving flag false, or motion globally disabled) is the base
\* frequency of the emitter.
C22_StillEmitterAtBase ==
    \A e \in UpdatedEmitters :
        NotIntegrated(e) => UnitOf(e).frequency.value = e.frequency

\* One step seen from the audio units: with audio not running before and after and
\* the view still open, the unit map, the serials and the disposals are as they
\* were; when audio becomes running, the map has exactly one unit per live emitter
\* and the units of emitters that are still live are the ones made before the pause.
UnitsStep ==
    /\ (~audioRunning /\ ~audioRunning' /\ mounted') =>
           UNCHANGED << nodeMap, nextSerial, disposeCount >>
    /\ (~audioRunning /\ audioRunning') =>
           /\ DOMAIN nodeMap' = LiveIds(emitters')
           /\ \A id \in DOMAIN nodeMap \cap LiveIds(emitters') :
                  nodeMap'[id].serial = nodeMap[id].serial

\* C23: while audio is not running and the view is not being closed, no frame, no
\* emitter add, patch or remove and no obstacle edit creates, disposes or
\* re-parameterises an audio unit; units made before a pause survive it, and the
\* reconciliation that follows the next successful start leaves one unit per live
\* emitter.
C23_UnitsUntouchedWhileStopped == [][UnitsStep]_vars

\* C23 witness: audio was paused with units in the map, an emitter was removed and
\* another added while it was paused, and the start that followed disposed the unit
\* of the removed emitter, made one for the added emitter and kept the others.
C23_Witness ==
    /\ last.op = "resumeResolved"
    /\ ~last.running0 /\ audioRunning
    /\ last.recon
    /\ last.created # {}
    /\ last.disposed # {}
    /\ DOMAIN last.units0 \ LiveIds(emitters) # {}
    /\ LiveIds(emitters) \ DOMAIN last.units0 # {}
    /\ \E id \in DOMAIN last.units0 \cap LiveIds(emitters) :
           nodeMap[id].serial = last.units0[id]
    /\ DOMAIN nodeMap = LiveIds(emitters)

====
